---- MODULE Spec2Model ----
(***************************************************************************)
(* Model of the FSRS review scheduler of star-infolearn (FSRSService).     *)
(*                                                                         *)
(* Numbers.  The service computes with IEEE doubles.  Here a number is an  *)
(* integer holding the value times Scale (four decimals), or one of the    *)
(* three special values NaN, PosInf, NegInf, which propagate as they do in *)
(* JavaScript.  exp, log and pow are computed by range reduction and a     *)
(* truncated series, accurate to about 1/Scale.                            *)
(*                                                                         *)
(* Time.  Timestamps are whole minutes (one unit = 60,000 ms of the        *)
(* source), so MsPerDay below is the source's 24*60*60*1000 in that unit.  *)
(***************************************************************************)
EXTENDS Integers, Sequences, FiniteSets, TLC

Scale == 10^4

PosInf == 2^30
NegInf == 0 - 2^30
NaN == 2^30 + 7

\* The element of a one-element set.  Written Val({ e(x) : x \in {a} }), it
\* is e(a) with the argument a evaluated once.
Val(S) == CHOOSE r \in S : TRUE

IsNaN(x) == x = NaN
IsFinite(x) == x > NegInf /\ x < PosInf

Abs(x) == IF x < 0 THEN 0 - x ELSE x
Sign(x) == IF x < 0 THEN 0 - 1 ELSE IF x > 0 THEN 1 ELSE 0

\* A whole number as a scaled number.
Num(n) == n * Scale

(***************************************************************************)
(* Finite fixed-point arithmetic.                                          *)
(***************************************************************************)

\* a * b / Scale to the nearest unit, for a, b >= 0, without forming the
\* full product.
MulAbs(a, b) ==
    Val({ LET a1 == x \div Scale
              a0 == x % Scale
              b1 == y \div Scale
              b0 == y % Scale
          IN  a1 * b1 * Scale + a1 * b0 + a0 * b1
                  + (a0 * b0 + Scale \div 2) \div Scale
          : x \in {a}, y \in {b} })

MulFix(a, b) ==
    Val({ Sign(x) * Sign(y) * MulAbs(Abs(x), Abs(y)) : x \in {a}, y \in {b} })

\* Decimal long division: the digits of r / b after the point, d digits.
RECURSIVE FracDigits(_, _, _)
FracDigits(r, b, d) ==
    IF d = 0 THEN 0
    ELSE Val({ (r10 \div b) * 10^(d - 1) + FracDigits(r10 % b, b, d - 1)
               : r10 \in {r * 10} })

\* The remainder left after those d digits.
RECURSIVE FracRem(_, _, _)
FracRem(r, b, d) ==
    IF d = 0 THEN r ELSE Val({ FracRem(r1, b, d - 1) : r1 \in {(r * 10) % b} })

\* a * Scale / b to the nearest unit, for a >= 0, b > 0.
DivAbs(a, b) ==
    Val({ (x \div y) * Scale + FracDigits(x % y, y, 4)
              + (IF 2 * FracRem(x % y, y, 4) >= y THEN 1 ELSE 0)
          : x \in {a}, y \in {b} })

DivFix(a, b) ==
    Val({ Sign(x) * Sign(y) * DivAbs(Abs(x), Abs(y)) : x \in {a}, y \in {b} })

\* e, ln 2 at four decimals.
EulerE == 27183
Ln2 == 6931

\* sum_{k >= n} x^k / k! given term = x^n / n!, for 0 <= x < 1.
RECURSIVE ExpSeries(_, _, _)
ExpSeries(x, term, n) ==
    Val({ IF t = 0 \/ n > 12 THEN 0
          ELSE t + ExpSeries(x, (2 * MulAbs(t, x) + n + 1) \div (2 * (n + 1)), n + 1)
          : t \in {term} })

RECURSIVE EPow(_)
EPow(n) == IF n = 0 THEN Scale ELSE MulAbs(EPow(n - 1), EulerE)

\* exp(x) for x >= 0: e^floor(x) * exp(frac(x)).
ExpPos(x) ==
    Val({ MulAbs(EPow(v \div Scale), ExpSeries(v % Scale, Scale, 0)) : v \in {x} })

\* exp(x); below exp(-12) the result is under the resolution.
ExpFix(x) ==
    Val({ IF v >= 0 THEN ExpPos(v)
          ELSE IF v < 0 - 12 * Scale THEN 0
          ELSE DivAbs(Scale, ExpPos(0 - v))
          : v \in {x} })

\* z + z^3/3 + z^5/5 + ... = ln((1+z)/(1-z)) / 2, 0 <= z <= 1/3, given
\* pow = z^n.
RECURSIVE AtanhSeries(_, _, _)
AtanhSeries(z2, pow, n) ==
    Val({ IF q = 0 \/ n > 11 THEN 0
          ELSE (2 * q + n) \div (2 * n) + AtanhSeries(z2, MulAbs(q, z2), n + 2)
          : q \in {pow} })

\* ln(m) for Scale <= m < 2 * Scale.
LnMantissa(m) ==
    Val({ 2 * AtanhSeries(MulAbs(z, z), z, 1) : z \in {DivAbs(m - Scale, m + Scale)} })

\* ln(x) for x > 0: halve or double into [1, 2), counting powers of two.
RECURSIVE LnFix(_)
LnFix(x) ==
    Val({ IF v >= 2 * Scale THEN LnFix(v \div 2) + Ln2
          ELSE IF v < Scale THEN LnFix(v * 2) - Ln2
          ELSE LnMantissa(v)
          : v \in {x} })

(***************************************************************************)
(* JavaScript number operations: the finite arithmetic above, with NaN and *)
(* the infinities handled as IEEE 754 does.                                *)
(***************************************************************************)

FNeg(a) == Val({ IF IsNaN(x) THEN NaN ELSE 0 - x : x \in {a} })

\* a + b
FAdd(a, b) ==
    Val({ IF IsNaN(x) \/ IsNaN(y) THEN NaN
          ELSE IF IsFinite(x) /\ IsFinite(y) THEN x + y
          ELSE IF IsFinite(y) THEN x
          ELSE IF IsFinite(x) THEN y
          ELSE IF x = y THEN x ELSE NaN
          : x \in {a}, y \in {b} })

\* a - b
FSub(a, b) == FAdd(a, FNeg(b))

\* a * b
FMul(a, b) ==
    Val({ IF IsNaN(x) \/ IsNaN(y) THEN NaN
          ELSE IF IsFinite(x) /\ IsFinite(y) THEN MulFix(x, y)
          ELSE IF x = 0 \/ y = 0 THEN NaN
          ELSE IF Sign(x) = Sign(y) THEN PosInf ELSE NegInf
          : x \in {a}, y \in {b} })

\* a / b
FDiv(a, b) ==
    Val({ IF IsNaN(x) \/ IsNaN(y) THEN NaN
          ELSE IF IsFinite(x) /\ IsFinite(y)
               THEN IF y # 0 THEN DivFix(x, y)
                    ELSE IF x = 0 THEN NaN
                    ELSE IF x > 0 THEN PosInf ELSE NegInf
          ELSE IF IsFinite(x) THEN 0
          ELSE IF ~IsFinite(y) THEN NaN
          ELSE IF y >= 0 THEN x ELSE 0 - x
          : x \in {a}, y \in {b} })

\* a < b, a <= b: false when either side is NaN.
FLt(a, b) == \E x \in {a}, y \in {b} : ~IsNaN(x) /\ ~IsNaN(y) /\ x < y
FLe(a, b) == \E x \in {a}, y \in {b} : ~IsNaN(x) /\ ~IsNaN(y) /\ x <= y

\* Math.max, Math.min: NaN when either argument is NaN.
MathMax(a, b) ==
    Val({ IF IsNaN(x) \/ IsNaN(y) THEN NaN ELSE IF x >= y THEN x ELSE y
          : x \in {a}, y \in {b} })
MathMin(a, b) ==
    Val({ IF IsNaN(x) \/ IsNaN(y) THEN NaN ELSE IF x <= y THEN x ELSE y
          : x \in {a}, y \in {b} })

\* Math.round: the nearest whole number, halves rounded up.
MathRound(a) ==
    Val({ IF ~IsFinite(x) THEN x ELSE ((x + Scale \div 2) \div Scale) * Scale
          : x \in {a} })

\* Math.exp
MathExp(a) ==
    Val({ IF IsNaN(x) THEN NaN
          ELSE IF x = PosInf THEN PosInf
          ELSE IF x = NegInf THEN 0
          ELSE ExpFix(x)
          : x \in {a} })

\* Math.log
MathLog(a) ==
    Val({ IF IsNaN(x) THEN NaN
          ELSE IF x = PosInf THEN PosInf
          ELSE IF x < 0 THEN NaN
          ELSE IF x = 0 THEN NegInf
          ELSE LnFix(x)
          : x \in {a} })

\* Math.pow(a, b) for a finite exponent b.
MathPow(a, b) ==
    Val({ IF y = 0 THEN Scale
          ELSE IF IsNaN(x) THEN NaN
          ELSE IF x = PosInf THEN (IF y > 0 THEN PosInf ELSE 0)
          ELSE IF x = 0 THEN (IF y > 0 THEN 0 ELSE PosInf)
          ELSE IF x > 0 THEN ExpFix(MulFix(y, LnFix(x)))
          ELSE IF y % Scale # 0 THEN NaN
          ELSE LET odd == (y \div Scale) % 2 = 1
                   mag == IF x = NegInf THEN (IF y > 0 THEN PosInf ELSE 0)
                          ELSE ExpFix(MulFix(y, LnFix(0 - x)))
               IN  IF odd THEN 0 - mag ELSE mag
          : x \in {a}, y \in {b} })

(***************************************************************************)
(* Types and defaults (types/fsrs.ts).                                     *)
(***************************************************************************)

AGAIN == 1
HARD == 2
GOOD == 3
EASY == 4

Ratings == {AGAIN, HARD, GOOD, EASY}

CardStates == {"new", "learning", "review", "relearning"}

\* lastReview: null
Null == -1

\* 24 * 60 minutes; 24 * 60 * 60 * 1000 ms counted in minutes.
MinutesPerDay == 24 * 60
MsPerDay == 24 * 60

DefaultW ==
    << 4072, 11829, 31262, 154722, 72102, 5316, 10651, 234, 16160, 1544,
       10824, 19813, 953, 2975, 22042, 2407, 29466, 5034, 6567 >>

DEFAULT_FSRS_PARAMETERS ==
    [ requestRetention |-> 9000,
      maximumInterval  |-> Num(36500),
      enableFuzz       |-> TRUE,
      w                |-> DefaultW ]

DEFAULT_STUDY_CONFIG ==
    [ newCardsPerDay     |-> 20,
      maxReviewsPerDay   |-> 200,
      learningSteps      |-> << Num(1), Num(10) >>,
      relearningSteps    |-> << Num(10) >>,
      graduatingInterval |-> Num(1),
      easyInterval       |-> Num(4),
      adaptiveLearning   |-> TRUE ]

\* Date.now() when the module is loaded, and the timestamps a caller passes.
Day(n) == n * MsPerDay
LoadTime == Day(9)
Times == { Day(10), Day(12) }

DEFAULT_CARD_STATE ==
    [ state          |-> "new",
      difficulty     |-> 0,
      stability      |-> 0,
      retrievability |-> 0,
      reps           |-> 0,
      lapses         |-> 0,
      lastReview     |-> Null,
      nextReview     |-> LoadTime,
      scheduledDays  |-> 0,
      elapsedDays    |-> 0 ]

(***************************************************************************)
(* The parameter sets and configurations a service is constructed with.    *)
(***************************************************************************)

\* A learner's optimised weights: Easy starts at 100 days, w4 = 10.5.
CustomW == [DefaultW EXCEPT ![4] = Num(100), ![5] = 105000]

ParameterSets ==
    { DEFAULT_FSRS_PARAMETERS,
      [DEFAULT_FSRS_PARAMETERS EXCEPT !.enableFuzz = FALSE, !.maximumInterval = Num(3)],
      [DEFAULT_FSRS_PARAMETERS EXCEPT !.w = CustomW, !.maximumInterval = Num(100)] }

Configs ==
    { DEFAULT_STUDY_CONFIG,
      [DEFAULT_STUDY_CONFIG EXCEPT !.learningSteps = << Num(15) >>,
                                   !.relearningSteps = << Num(720), Num(1440) >>] }

\* Math.random(): draws from [0, 1).
RandomDraws == { 0, 5000, 9999 }

MaxReps == 2
MaxLapses == 1

\* parameters, config: the service's fields.  card: the learner's card.
\* log: the latest review log entry.  visited: the lifecycles the card has
\* been in (history, to state reachability).
\* returned: what the latest direct processReview call returned.
\* preview: what the latest getSchedulingCards call returned.
\* cards: the card collection.  session: the latest buildStudyQueue call.
\* dailyStats: the daily-stats history, in the order it is supplied.
\* stats: what the latest calculateLearningStats call returned.
\* fuzzCall: the latest applyFuzz call, its argument, draw and result.
\* introduced: the ids of the cards queued as 'new' so far (history).
\* reviewState: the store's review session.  handlers: the handleRating
\* calls, each with its position in the handler and its locals.
\* clock: Date.now().  cardFiles, logFile: the vault's card files and
\* review-log file.  passed: the log entries handed to saveReviewLog
\* (history).  applied: per queue position, how often processReview was
\* applied to it (history).
\* fsrsServiceInstance: the module-level singleton.  lastCall: the latest
\* getFSRSService / resetFSRSService call and what it returned.
\* allocated: how many FSRSService objects have been constructed.
VARIABLES parameters, config, card, log, visited, returned, preview,
          cards, session, dailyStats, stats,
          fuzzCall, introduced,
          reviewState, handlers, clock, cardFiles, logFile, passed, applied,
          fsrsServiceInstance, lastCall, allocated

vars == << parameters, config, card, log, visited, returned, preview,
           cards, session, dailyStats, stats,
           fuzzCall, introduced,
           reviewState, handlers, clock, cardFiles, logFile, passed, applied,
           fsrsServiceInstance, lastCall, allocated >>

\* The parts of the state an operation on one card leaves alone.
collectionVars == << cards, session, dailyStats, stats >>

\* The review view with its store and vault, and the singleton.
viewVars == << reviewState, handlers, clock, cardFiles, logFile, passed, applied >>
singletonVars == << fsrsServiceInstance, lastCall, allocated >>
otherVars == << fuzzCall, introduced, viewVars, singletonVars >>

(***************************************************************************)
(* FSRSService: the memory model.                                          *)
(***************************************************************************)

\* w[i] of the source (0-based); an index outside the vector reads
\* undefined, which is NaN in arithmetic.
W(i) == IF i + 1 \in DOMAIN parameters.w THEN parameters.w[i + 1] ELSE NaN

\* steps[i] of the source (0-based).
StepAt(steps, i) == IF i + 1 \in DOMAIN steps THEN steps[i + 1] ELSE NaN

\* D0(G) = w[4] - exp(w[5] * (G - 1)) + 1
initDifficulty(rating) ==
    FAdd(FSub(W(4), MathExp(FMul(W(5), Num(rating - 1)))), Num(1))

\* S0(G) = w[G-1]
initStability(rating) == W(rating - 1)

\* D'(D, G) = w[6] * D0(3) + (1 - w[6]) * (D - w[7] * (G - 3)), in [1, 10]
nextDifficulty(difficulty, rating) ==
    LET d0   == initDifficulty(GOOD)
        newD == FAdd(FMul(W(6), d0),
                     FMul(FSub(Num(1), W(6)),
                          FSub(difficulty, FMul(W(7), Num(rating - 3)))))
    IN  MathMax(Num(1), MathMin(Num(10), newD))

\* R(t, S) = exp(ln(0.9) * t / S)
calculateRetrievability(elapsedDays, stability) ==
    IF FLe(stability, 0) THEN 0
    ELSE LET factor == MathLog(9000)
         IN  MathExp(FDiv(FMul(factor, elapsedDays), stability))

\* A success that takes the growth off instead of adding it.
nextStabilityAfterSuccess_Shrinks(difficulty, stability, retrievability, rating) ==
    LET growth ==
            FMul(FMul(FMul(
                MathExp(W(8)),
                FSub(Num(11), difficulty)),
                MathPow(stability, FNeg(W(9)))),
                FSub(MathExp(FMul(W(10), FSub(Num(1), retrievability))), Num(1)))
    IN  FMul(stability, FSub(Num(1), growth))

nextStabilityAfterSuccess(difficulty, stability, retrievability, rating) ==
    LET hardPenalty == IF rating = HARD THEN W(15) ELSE Num(1)
        easyBonus   == IF rating = EASY THEN W(16) ELSE Num(1)
        growth ==
            FMul(FMul(FMul(FMul(FMul(
                MathExp(W(8)),
                FSub(Num(11), difficulty)),
                MathPow(stability, FNeg(W(9)))),
                FSub(MathExp(FMul(W(10), FSub(Num(1), retrievability))), Num(1))),
                hardPenalty),
                easyBonus)
    IN  FMul(stability, FAdd(growth, Num(1)))

nextStabilityAfterFailure(difficulty, stability, retrievability) ==
    LET newS ==
            FMul(FMul(FMul(
                W(11),
                MathPow(difficulty, FNeg(W(12)))),
                FSub(MathPow(FAdd(stability, Num(1)), W(13)), Num(1))),
                MathExp(FMul(W(14), FSub(Num(1), retrievability))))
    IN  MathMax(1000, newS)

\* I = S * ln(R) / ln(0.9), rounded, in [1, maximumInterval]
calculateInterval(stability) ==
    LET retention == parameters.requestRetention
        factor    == MathLog(9000)
        interval  == FDiv(FMul(stability, MathLog(retention)), factor)
    IN  MathMin(MathMax(Num(1), MathRound(interval)), parameters.maximumInterval)

\* A fuzz that ignores the enableFuzz flag.
applyFuzz_Always(interval, random) ==
    IF FLt(interval, 25000)
    THEN MathRound(interval)
    ELSE LET fuzzFactor == MathMin(Num(1), FDiv(interval, Num(100)))
             fuzzRange  == FMul(FMul(interval, 500), fuzzFactor)
             fuzz       == FMul(FMul(FSub(random, 5000), Num(2)), fuzzRange)
         IN  MathMax(Num(1), MathRound(FAdd(interval, fuzz)))

\* A fuzz of up to 50% instead of 5%.
applyFuzz_Wide(interval, random) ==
    IF ~parameters.enableFuzz \/ FLt(interval, 25000)
    THEN MathRound(interval)
    ELSE LET fuzzFactor == MathMin(Num(1), FDiv(interval, Num(100)))
             fuzzRange  == FMul(FMul(interval, 5000), fuzzFactor)
             fuzz       == FMul(FMul(FSub(random, 5000), Num(2)), fuzzRange)
         IN  MathMax(Num(1), MathRound(FAdd(interval, fuzz)))

\* random is the value Math.random() returns when the fuzz branch draws it.
applyFuzz(interval, random) ==
    IF ~parameters.enableFuzz \/ FLt(interval, 25000)
    THEN MathRound(interval)
    ELSE LET fuzzFactor == MathMin(Num(1), FDiv(interval, Num(100)))
             fuzzRange  == FMul(FMul(interval, 500), fuzzFactor)
             fuzz       == FMul(FMul(FSub(random, 5000), Num(2)), fuzzRange)
         IN  MathMax(Num(1), MathRound(FAdd(interval, fuzz)))

\* now + days * 24 * 60 * 60 * 1000, a timestamp to the nearest minute.
DueAt(now, days) ==
    IF ~IsFinite(days) THEN days
    ELSE now + (days \div Scale) * MsPerDay
             + ((days % Scale) * MsPerDay + Scale \div 2) \div Scale

(***************************************************************************)
(* FSRSService: the review state machine.                                  *)
(***************************************************************************)

\* A due date taken from the raw interval instead of the stored one.
Schedule_RawDue(state, now, random) ==
    [state EXCEPT !.scheduledDays = applyFuzz(state.scheduledDays, random),
                  !.nextReview = DueAt(now, state.scheduledDays)]

\* The tail every branch shares: fuzz the raw interval, then derive the due
\* date from the stored interval.
Schedule(state, now, random) ==
    Val({ [state EXCEPT !.scheduledDays = scheduledDays,
                        !.nextReview = DueAt(now, scheduledDays)]
          : scheduledDays \in {applyFuzz(state.scheduledDays, random)} })

processNewCard(state, rating, now, random) ==
    LET s1 == [state EXCEPT !.difficulty = initDifficulty(rating),
                            !.stability = initStability(rating),
                            !.reps = 1]
        s2 == IF rating = AGAIN
              THEN [s1 EXCEPT !.state = "learning",
                              !.scheduledDays =
                                  FDiv(StepAt(config.learningSteps, 0), Num(MinutesPerDay))]
              ELSE IF rating = HARD
              THEN LET len == Len(config.learningSteps)
                       stepIndex == IF 1 <= len - 1 THEN 1 ELSE len - 1
                   IN  [s1 EXCEPT !.state = "learning",
                                  !.scheduledDays =
                                      FDiv(StepAt(config.learningSteps, stepIndex),
                                           Num(MinutesPerDay))]
              ELSE IF rating = GOOD
              THEN [s1 EXCEPT !.state = "review",
                              !.scheduledDays = config.graduatingInterval]
              ELSE [s1 EXCEPT !.state = "review",
                              !.scheduledDays = config.easyInterval]
        s3 == Schedule(s2, now, random)
    IN  [s3 EXCEPT !.retrievability = calculateRetrievability(0, s3.stability)]

\* A reset that also forgets the card's lifecycle.
ResetToFirstStep_ToNew(state, steps) ==
    [state EXCEPT !.state = "new",
                  !.scheduledDays = FDiv(StepAt(steps, 0), Num(MinutesPerDay))]

\* A reset that counts as a lapse.
ResetToFirstStep_CountsLapse(state, steps) ==
    [state EXCEPT !.scheduledDays = FDiv(StepAt(steps, 0), Num(MinutesPerDay)),
                  !.lapses = @ + 1]

\* Again in learning/relearning: reset to the first step.
ResetToFirstStep(state, steps) ==
    [state EXCEPT !.scheduledDays = FDiv(StepAt(steps, 0), Num(MinutesPerDay)),
                  !.lapses = IF state.state = "relearning" THEN state.lapses
                                                           ELSE state.lapses]

\* A Hard rating that graduates the card.
StayOnStep_Graduates(state, steps) ==
    [state EXCEPT !.state = "review",
                  !.scheduledDays =
                      FDiv(FMul(StepAt(steps, 0), 12000), Num(MinutesPerDay))]

\* Hard in learning/relearning: the first step times 1.2.
StayOnStep(state, steps) ==
    LET currentStep == StepAt(steps, 0)
    IN  [state EXCEPT !.scheduledDays =
                          FDiv(FMul(currentStep, 12000), Num(MinutesPerDay))]

\* A graduation that is not counted as a repetition.
Graduate_NotCounted(state, rating) ==
    [state EXCEPT !.state = "review",
                  !.difficulty = nextDifficulty(state.difficulty, rating),
                  !.scheduledDays = IF rating = GOOD THEN config.graduatingInterval
                                                     ELSE config.easyInterval]

\* Good, and any other rating (Easy), in learning/relearning: graduate.
Graduate(state, rating) ==
    [state EXCEPT !.state = "review",
                  !.reps = @ + 1,
                  !.difficulty = nextDifficulty(state.difficulty, rating),
                  !.scheduledDays = IF rating = GOOD THEN config.graduatingInterval
                                                     ELSE config.easyInterval]

processLearningCard(state, rating, now, random) ==
    LET steps == IF state.state = "learning"
                 THEN config.learningSteps
                 ELSE config.relearningSteps
        s2 == IF rating = AGAIN
              THEN ResetToFirstStep(state, steps)
              ELSE IF rating = HARD
              THEN StayOnStep(state, steps)
              ELSE Graduate(state, rating)
        s3 == Schedule(s2, now, random)
    IN  [s3 EXCEPT !.retrievability = calculateRetrievability(0, s3.stability)]

\* A lapse that is not counted.
Lapse_NotCounted(state) == [state EXCEPT !.state = "relearning"]

\* Again in review: count the lapse and enter relearning.
Lapse(state) == [state EXCEPT !.lapses = @ + 1, !.state = "relearning"]

processReviewCard(state, rating, now, elapsedDays, random) ==
    LET retrievability == calculateRetrievability(elapsedDays, state.stability)
        s1 == [state EXCEPT !.retrievability = retrievability]
        s2 == IF rating = AGAIN
              THEN [Lapse(s1) EXCEPT
                              !.stability =
                                  nextStabilityAfterFailure(
                                      s1.difficulty, s1.stability, retrievability),
                              !.difficulty = nextDifficulty(s1.difficulty, rating),
                              !.scheduledDays =
                                  FDiv(StepAt(config.relearningSteps, 0), Num(MinutesPerDay))]
              ELSE LET stability ==
                           nextStabilityAfterSuccess(
                               s1.difficulty, s1.stability, retrievability, rating)
                   IN  [s1 EXCEPT !.reps = @ + 1,
                                  !.stability = stability,
                                  !.difficulty = nextDifficulty(s1.difficulty, rating),
                                  !.scheduledDays = calculateInterval(stability)]
    IN  Schedule(s2, now, random)

\* lastReview is falsy when it is null, 0 or NaN.
processReview(cardState, rating, now, random) ==
    LET currentTime == now
        elapsedDays ==
            IF cardState.lastReview \notin {Null, 0, NaN}
            THEN FDiv(Num(currentTime - cardState.lastReview), Num(MsPerDay))
            ELSE 0
        newState == [cardState EXCEPT !.elapsedDays = elapsedDays,
                                      !.lastReview = currentTime]
    IN  Val({ CASE cardState.state = "new" ->
                       processNewCard(state, rating, currentTime, random)
                [] cardState.state \in {"learning", "relearning"} ->
                       processLearningCard(state, rating, currentTime, random)
                [] cardState.state = "review" ->
                       processReviewCard(state, rating, currentTime, state.elapsedDays, random)
                [] OTHER -> state
              : state \in {newState} })

\* The log entry of one answered card.  Its timestamp is the clock reading
\* of the review (the same minute as processReview's now); the answering
\* time is left out.
createReviewLog(cardState, newState, rating, now) ==
    [ rating        |-> rating,
      timestamp     |-> now,
      stateBefore   |-> cardState.state,
      stateAfter    |-> newState.state,
      scheduledDays |-> newState.scheduledDays,
      elapsedDays   |-> newState.elapsedDays ]

NoLog ==
    [ rating |-> 0, timestamp |-> Null, stateBefore |-> "new", stateAfter |-> "new",
      scheduledDays |-> 0, elapsedDays |-> 0 ]

(***************************************************************************)
(* Object identity.  processReview works on newState = { ...cardState },   *)
(* and the process* methods assign to the fields of the object they are    *)
(* given.  NewStateRef is the object newState names; the fields of the     *)
(* caller's object after the call follow from it.                          *)
(***************************************************************************)

\* newState names the caller's own object.
NewStateRef_Alias(cardStateRef) == cardStateRef

\* const newState = { ...cardState }: a fresh object.
NewStateRef(cardStateRef) == "newState"

\* One processReview call: the state it returns, and the fields of the
\* caller's object once it has returned.
ReviewCall(cardState, rating, now, random) ==
    Val({ [ newState  |-> newState,
            cardState |-> IF NewStateRef("cardState") = "cardState"
                          THEN newState ELSE cardState ]
          : newState \in { processReview(cardState, rating, now, random) } })

\* createSchedulingInfo; the interval label (formatInterval) is left out.
createSchedulingInfo(rating, newState) ==
    [ rating |-> rating, newState |-> newState, interval |-> newState.scheduledDays ]

\* getSchedulingCards: four processReview calls on the same object, each
\* with its own Math.random() draw.  cardState is the caller's object once
\* the four calls have returned.
getSchedulingCards(cardState, now, randoms) ==
    Val({ Val({ Val({ Val({
        [ cards     |-> [ again |-> createSchedulingInfo(AGAIN, c1.newState),
                          hard  |-> createSchedulingInfo(HARD, c2.newState),
                          good  |-> createSchedulingInfo(GOOD, c3.newState),
                          easy  |-> createSchedulingInfo(EASY, c4.newState) ],
          cardState |-> c4.cardState ]
        : c4 \in { ReviewCall(c3.cardState, EASY, now, randoms[EASY]) } })
        : c3 \in { ReviewCall(c2.cardState, GOOD, now, randoms[GOOD]) } })
        : c2 \in { ReviewCall(c1.cardState, HARD, now, randoms[HARD]) } })
        : c1 \in { ReviewCall(cardState, AGAIN, now, randoms[AGAIN]) } })

(***************************************************************************)
(* FSRSService: the study queue.  A card of the collection is              *)
(* [id, createdAt, fsrsState]; the fields no queue method reads are left   *)
(* out.                                                                    *)
(***************************************************************************)

\* createLearningCard: a card that was never reviewed.
createLearningCard(id, createdAt) ==
    [ id |-> id, createdAt |-> createdAt, fsrsState |-> DEFAULT_CARD_STATE ]

\* Array.prototype.filter with the test "the card's lifecycle is in states".
FilterByState(list, states) ==
    LET Test(c) == c.fsrsState.state \in states
    IN  SelectSeq(list, Test)

\* The value undefined, where a number is expected.
Undefined == 2^30 + 9

\* A slice that keeps the whole list.
SliceTo_All(seq, end) == seq

\* seq.slice(0, end): an undefined end keeps the whole list, NaN counts as
\* 0, a negative end counts from the end of the list.
SliceTo(seq, end) ==
    IF end = Undefined THEN seq
    ELSE IF IsNaN(end) THEN << >>
    ELSE IF end < 0 THEN SubSeq(seq, 1, Len(seq) + end)
    ELSE SubSeq(seq, 1, IF end < Len(seq) THEN end ELSE Len(seq))

\* new Date(date).getTime() of a date string 'YYYY-MM-DD'; a date is kept
\* as the number of its day.
DateTime(date) == date * MsPerDay

\* The comparators of getDueCards ("due"), getNewCards ("created") and of
\* the daily-stats sort in calculateLearningStats ("date", latest first).
DuePriority(c) ==
    IF c.fsrsState.state = "new" THEN 2
    ELSE IF c.fsrsState.state \in { "learning", "relearning" } THEN 0 ELSE 1

Compare(by, a, b) ==
    IF by = "due"
    THEN IF DuePriority(a) # DuePriority(b)
         THEN DuePriority(a) - DuePriority(b)
         ELSE a.fsrsState.nextReview - b.fsrsState.nextReview
    ELSE IF by = "created"
    THEN a.createdAt - b.createdAt
    ELSE DateTime(b.date) - DateTime(a.date)

\* Array.prototype.sort: a stable sort.  Insert puts x behind every element
\* that does not compare greater than x.
RECURSIVE Insert(_, _, _)
Insert(by, sorted, x) ==
    IF sorted = << >> THEN << x >>
    ELSE IF Compare(by, sorted[Len(sorted)], x) <= 0 THEN Append(sorted, x)
    ELSE Append(Insert(by, SubSeq(sorted, 1, Len(sorted) - 1), x), sorted[Len(sorted)])

RECURSIVE Sort(_, _)
Sort(by, list) ==
    IF list = << >> THEN << >>
    ELSE Val({ Insert(by, sorted, list[Len(list)])
               : sorted \in { Sort(by, SubSeq(list, 1, Len(list) - 1)) } })

\* The due cards in the order of the collection.
getDueCards_Unsorted(list, now) ==
    LET Due(c) == FLe(c.fsrsState.nextReview, now)
    IN  SelectSeq(list, Due)

getDueCards(list, now) ==
    LET Due(c) == FLe(c.fsrsState.nextReview, now)
    IN  Sort("due", SelectSeq(list, Due))

getNewCards(list) == Sort("created", FilterByState(list, { "new" }))

\* An item with the priority counter set to 0 for every item.
QueueItem_NoPriority(c, priority) ==
    [ cardId |-> c.id, dueDate |-> c.fsrsState.nextReview,
      state |-> c.fsrsState.state, priority |-> 0 ]

\* queue.push({ cardId, dueDate, state, priority: priority++ })
QueueItem(c, priority) ==
    [ cardId |-> c.id, dueDate |-> c.fsrsState.nextReview,
      state |-> c.fsrsState.state, priority |-> priority ]

\* for (const card of list) queue.push(...): the items of list, numbered
\* from priority.
PushAll(queue, list, priority) ==
    queue \o [ i \in 1..Len(list) |-> QueueItem(list[i], priority + i - 1) ]

\* A batch of 11 reviews.
ReviewBatch_Eleven(reviewQueue) == SliceTo(reviewQueue, 11)

\* reviewQueue.splice(0, 10): the batch that is removed.
ReviewBatch(reviewQueue) == SliceTo(reviewQueue, 10)

\* The while loop, run for at most fuel rounds.  left is the number of cards
\* still waiting when the evaluation stops: 0 when the loop has ended by its
\* own condition.
RECURSIVE InterleaveLoop(_, _, _, _, _)
InterleaveLoop(reviewQueue, newQueue, queue, priority, fuel) ==
    IF ~(Len(reviewQueue) > 0 \/ Len(newQueue) > 0)
    THEN [ queue |-> queue, left |-> 0 ]
    ELSE IF fuel = 0
    THEN [ queue |-> queue, left |-> Len(reviewQueue) + Len(newQueue) ]
    ELSE LET reviewBatch == ReviewBatch(reviewQueue)
             reviewRest  == SubSeq(reviewQueue, Len(reviewBatch) + 1, Len(reviewQueue))
             queue1      == PushAll(queue, reviewBatch, priority)
             priority1   == priority + Len(reviewBatch)
         IN  IF Len(newQueue) > 0
             THEN InterleaveLoop(reviewRest, Tail(newQueue),
                                 Append(queue1, QueueItem(Head(newQueue), priority1)),
                                 priority1 + 1, fuel - 1)
             ELSE InterleaveLoop(reviewRest, newQueue, queue1, priority1, fuel - 1)

\* The three lists buildStudyQueue selects.
reviewCardsOf(list, now) ==
    SliceTo(FilterByState(getDueCards(list, now), { "review" }),
            IF config.maxReviewsPerDay = 0 \/ IsNaN(config.maxReviewsPerDay)
            THEN Undefined ELSE config.maxReviewsPerDay)

learningCardsOf(list, now) ==
    FilterByState(getDueCards(list, now), { "learning", "relearning" })

newCardsOf(list) == SliceTo(getNewCards(list), config.newCardsPerDay)

\* A queue with the learning cards behind the reviews and the new cards.
buildStudyQueue_LearningLast(list, now) ==
    LET reviewCards   == reviewCardsOf(list, now)
        learningCards == learningCardsOf(list, now)
        newCards      == newCardsOf(list)
        loop == InterleaveLoop(reviewCards, newCards, << >>, 0,
                               Len(reviewCards) + Len(newCards))
    IN  [ loop EXCEPT !.queue = PushAll(@, learningCards, Len(@)) ]

buildStudyQueue(list, now) ==
    LET reviewCards   == reviewCardsOf(list, now)
        learningCards == learningCardsOf(list, now)
        newCards      == newCardsOf(list)
    IN  InterleaveLoop(reviewCards, newCards,
                       PushAll(<< >>, learningCards, 0), Len(learningCards),
                       Len(reviewCards) + Len(newCards))

(***************************************************************************)
(* FSRSService: statistics.  An entry of the daily-stats history is        *)
(* [date, reviewed].                                                       *)
(***************************************************************************)

\* The history as it is supplied, without the sort.
sortedStatsOf_Unsorted(history) == history

\* [...dailyStats].sort(...): latest date first.
sortedStatsOf(history) == Sort("date", history)

\* for (const stat of sortedStats): the loop from entry i on.
RECURSIVE StreakLoop(_, _, _, _)
StreakLoop(sortedStats, i, currentStreak, bestStreak) ==
    IF i > Len(sortedStats)
    THEN [ currentStreak |-> currentStreak, bestStreak |-> bestStreak ]
    ELSE IF sortedStats[i].reviewed > 0
    THEN StreakLoop(sortedStats, i + 1, currentStreak + 1,
                    IF currentStreak + 1 > bestStreak THEN currentStreak + 1
                                                      ELSE bestStreak)
    ELSE StreakLoop(sortedStats, i + 1, 0, bestStreak)

\* calculateLearningStats: the counts and the streaks of the result.
calculateLearningStats(list, reviewLogs, history) ==
    LET loop == StreakLoop(sortedStatsOf(history), 1, 0, 0)
    IN  [ totalCards   |-> Len(list),
          totalReviews |-> Len(reviewLogs),
          streak       |-> loop.currentStreak,
          bestStreak   |-> loop.bestStreak ]

NoSession == [ now |-> Null, queue |-> << >>, left |-> 0 ]

NoStats ==
    [ totalCards |-> 0, totalReviews |-> 0, streak |-> 0 - 1, bestStreak |-> 0 - 1 ]

NoReturn == [ rating |-> 0, now |-> Null, newState |-> DEFAULT_CARD_STATE ]

NoPreview ==
    [ now   |-> Null,
      cards |-> [ again |-> createSchedulingInfo(AGAIN, DEFAULT_CARD_STATE),
                  hard  |-> createSchedulingInfo(HARD, DEFAULT_CARD_STATE),
                  good  |-> createSchedulingInfo(GOOD, DEFAULT_CARD_STATE),
                  easy  |-> createSchedulingInfo(EASY, DEFAULT_CARD_STATE) ] ]

(***************************************************************************)
(* The values of the parts of the state a specification does not use.      *)
(***************************************************************************)

NoFuzz == [ interval |-> 0, random |-> Null, result |-> Null ]
NoReviewState == [ isActive |-> FALSE, currentIndex |-> 0, queue |-> << >> ]
NoCall == [ op |-> "none" ]
\* fsrsServiceInstance = null: no object, told apart by id 0.
NoInstance == [ id |-> 0 ]

FuzzIdle == fuzzCall = NoFuzz

DayIdle == introduced = { }

ViewIdle ==
    /\ reviewState = NoReviewState
    /\ handlers = << >>
    /\ clock = 0
    /\ cardFiles = << >>
    /\ logFile = << >>
    /\ passed = << >>
    /\ applied = << >>

SingletonIdle ==
    /\ fsrsServiceInstance = NoInstance
    /\ lastCall = NoCall
    /\ allocated = 0

OthersIdle == FuzzIdle /\ DayIdle /\ ViewIdle /\ SingletonIdle

\* One card under review.
ReviewIdle ==
    /\ card = DEFAULT_CARD_STATE
    /\ log = NoLog
    /\ visited = { }
    /\ returned = NoReturn
    /\ preview = NoPreview

CollectionIdle ==
    /\ cards = << >>
    /\ session = NoSession
    /\ dailyStats = << >>
    /\ stats = NoStats

(***************************************************************************)
(* The state machine: one service, one card, one review per step.          *)
(***************************************************************************)

Init ==
    /\ parameters \in ParameterSets
    /\ config \in Configs
    /\ card = DEFAULT_CARD_STATE
    /\ log = NoLog
    /\ visited = { "new" }
    /\ returned = NoReturn
    /\ preview = NoPreview
    /\ cards = << >>
    /\ session = NoSession
    /\ dailyStats = << >>
    /\ stats = NoStats
    /\ OthersIdle

\* A learner answers the card: processReview, then the log entry.  The
\* counters reps and lapses are explored up to MaxReps and MaxLapses.
Review(rating, now, random) ==
    /\ \E newState \in { processReview(card, rating, now, random) } :
           /\ newState.reps <= MaxReps
           /\ newState.lapses <= MaxLapses
           /\ card' = newState
           /\ log' = createReviewLog(card, newState, rating, now)
           /\ visited' = visited \cup { newState.state }
    /\ UNCHANGED << parameters, config, returned, preview, collectionVars, otherVars >>

\* Math.random() is drawn only when fuzzing is enabled.
Next == \E rating \in Ratings, now \in Times :
            \E random \in (IF parameters.enableFuzz THEN RandomDraws ELSE { 0 }) :
                Review(rating, now, random)

Spec == Init /\ [][Next]_vars

FairSpec == Spec /\ WF_vars(Next)

(***************************************************************************)
(* Previews and direct calls on one stored card state.  The caller keeps   *)
(* the object it passes in (card); the calls return new objects.           *)
(***************************************************************************)

\* Services with and without fuzz; the second has intervals long enough
\* (about 100 days) for a fuzz of 5% to change the rounded interval.
PreviewParameterSets ==
    { DEFAULT_FSRS_PARAMETERS,
      [DEFAULT_FSRS_PARAMETERS EXCEPT !.enableFuzz = FALSE],
      [DEFAULT_FSRS_PARAMETERS EXCEPT !.w = CustomW, !.enableFuzz = FALSE] }

\* The rating histories of the stored cards: one per lifecycle and more.
ReviewPaths ==
    { << >>, << AGAIN >>, << GOOD >>, << EASY >>, << GOOD, AGAIN >>, << EASY, HARD >> }

\* The card state a history of ratings leaves, every review at the time at.
RECURSIVE CardAfterAt(_, _)
CardAfterAt(path, at) ==
    IF path = << >> THEN DEFAULT_CARD_STATE
    ELSE processReview(CardAfterAt(SubSeq(path, 1, Len(path) - 1), at),
                       path[Len(path)], at, 0)

CardAfter(path) == CardAfterAt(path, Day(10))

\* The values the four Math.random() calls of one preview return.
PreviewDraws ==
    { [ r \in Ratings |-> 0 ], [ r \in Ratings |-> 9999 ],
      [ r \in Ratings |-> IF r \in { AGAIN, GOOD } THEN 0 ELSE 9999 ] }

PreviewInit ==
    /\ parameters \in PreviewParameterSets
    /\ config \in Configs
    /\ card \in { CardAfter(path) : path \in ReviewPaths }
    /\ log = NoLog
    /\ visited = { card.state }
    /\ returned = NoReturn
    /\ preview = NoPreview
    /\ cards = << >>
    /\ session = NoSession
    /\ dailyStats = << >>
    /\ stats = NoStats
    /\ OthersIdle

\* processReview(card, rating, now): random is what Math.random() returns
\* if it is called.
CallProcessReview(rating, now, random) ==
    /\ \E call \in { ReviewCall(card, rating, now, random) } :
           /\ returned' = [ rating |-> rating, now |-> now, newState |-> call.newState ]
           /\ card' = call.cardState
    /\ UNCHANGED << parameters, config, log, visited, preview, collectionVars, otherVars >>

\* getSchedulingCards(card, now).
CallGetSchedulingCards(now, randoms) ==
    /\ \E call \in { getSchedulingCards(card, now, randoms) } :
           /\ preview' = [ now |-> now, cards |-> call.cards ]
           /\ card' = call.cardState
    /\ UNCHANGED << parameters, config, log, visited, returned, collectionVars, otherVars >>

PreviewNext ==
    \/ \E rating \in Ratings, now \in Times, random \in { 0, 9999 } :
           CallProcessReview(rating, now, random)
    \/ \E now \in Times, randoms \in PreviewDraws :
           CallGetSchedulingCards(now, randoms)

PreviewSpec == PreviewInit /\ [][PreviewNext]_vars

(***************************************************************************)
(* Study sessions over a card collection.                                  *)
(***************************************************************************)

MaxReviewCards == 12
MaxLearningCards == 2
MaxNewCards == 3

\* The daily caps a service is configured with: << newCardsPerDay,
\* maxReviewsPerDay >>.
DailyCaps == { << 20, 200 >>, << 2, 11 >>, << 0, 0 >> }

QueueConfigs ==
    { [c EXCEPT !.newCardsPerDay = caps[1], !.maxReviewsPerDay = caps[2]]
      : c \in Configs, caps \in DailyCaps }

\* A card with a history: its state is what processReview made of it.
StudiedCard(id, path, at) ==
    [ createLearningCard(id, Day(1)) EXCEPT !.fsrsState = CardAfterAt(path, at) ]

\* The k-th new card; creation times are not in the order of k.
NewCardNo(k) == createLearningCard(100 + k, Day(5 + ((2 * k) % 3)))

\* The i-th review card: rated Good on day 8, 9 or 10, due a day later.
ReviewCardNo(i) == StudiedCard(200 + i, << GOOD >>, Day(8 + ((2 * i) % 3)))

\* The j-th card on a step: in learning (odd j) or relearning (even j).
LearningCardNo(j) ==
    IF j % 2 = 1
    THEN StudiedCard(300 + j, << AGAIN >>, Day(10 - ((j \div 2) % 2)))
    ELSE StudiedCard(300 + j, << GOOD, AGAIN >>, Day(10))

Reverse(seq) == [ i \in 1..Len(seq) |-> seq[Len(seq) + 1 - i] ]

\* The collections: so many cards of each kind, in two orders.
Collections ==
    LET new      == [ k \in 1..MaxNewCards |-> NewCardNo(k) ]
        review   == [ i \in 1..MaxReviewCards |-> ReviewCardNo(i) ]
        learning == [ j \in 1..MaxLearningCards |-> LearningCardNo(j) ]
        all == { SubSeq(new, 1, nN) \o SubSeq(review, 1, nR) \o SubSeq(learning, 1, nL)
                 : nN \in 0..MaxNewCards, nR \in 0..MaxReviewCards,
                   nL \in 0..MaxLearningCards }
    IN  all \cup { Reverse(list) : list \in all }

QueueInit ==
    /\ parameters = DEFAULT_FSRS_PARAMETERS
    /\ config \in QueueConfigs
    /\ cards \in Collections
    /\ session = NoSession
    /\ card = DEFAULT_CARD_STATE
    /\ log = NoLog
    /\ visited = { }
    /\ returned = NoReturn
    /\ preview = NoPreview
    /\ dailyStats = << >>
    /\ stats = NoStats
    /\ OthersIdle

\* buildStudyQueue(cards, now).
BuildStudyQueue(now) ==
    /\ \E built \in { buildStudyQueue(cards, now) } :
           session' = [ now |-> now, queue |-> built.queue, left |-> built.left ]
    /\ UNCHANGED << parameters, config, card, log, visited, returned, preview,
                    cards, dailyStats, stats, otherVars >>

QueueNext == \E now \in Times : BuildStudyQueue(now)

QueueSpec == QueueInit /\ [][QueueNext]_vars

(***************************************************************************)
(* Statistics over a daily-stats history.                                  *)
(***************************************************************************)

MaxDays == 6

\* The numbers of reviews a day's entry records.
ReviewedCounts == { 0, 2 }

\* seq turned so that it starts at its entry k + 1.
Rotate(seq, k) ==
    [ i \in 1..Len(seq) |-> seq[((i + k - 1) % Len(seq)) + 1] ]

\* The histories: one entry for each of the days 1..n, supplied in
\* ascending or descending date order, turned by any number of entries.
Histories ==
    LET byDate == UNION { [ 1..n -> ReviewedCounts ] : n \in 0..MaxDays }
        ascending(f) == [ d \in DOMAIN f |-> [ date |-> d, reviewed |-> f[d] ] ]
    IN  UNION { { Rotate(ascending(f), k), Rotate(Reverse(ascending(f)), k) }
                : f \in byDate, k \in 0..MaxDays }

StatsInit ==
    /\ parameters = DEFAULT_FSRS_PARAMETERS
    /\ config = DEFAULT_STUDY_CONFIG
    /\ dailyStats \in Histories
    /\ stats = NoStats
    /\ cards = << >>
    /\ session = NoSession
    /\ card = DEFAULT_CARD_STATE
    /\ log = NoLog
    /\ visited = { }
    /\ returned = NoReturn
    /\ preview = NoPreview
    /\ OthersIdle

\* calculateLearningStats(cards, [], dailyStats).
CalculateLearningStats ==
    /\ stats' = calculateLearningStats(cards, << >>, dailyStats)
    /\ UNCHANGED << parameters, config, card, log, visited, returned, preview,
                    cards, session, dailyStats, otherVars >>

StatsNext == CalculateLearningStats

StatsSpec == StatsInit /\ [][StatsNext]_vars

(***************************************************************************)
(* applyFuzz on its own: one interval, every draw.                         *)
(***************************************************************************)

\* Intervals in days below, at and above the 2.5-day threshold, below and
\* above the 100 days where the fuzz reaches its full 5%, up to the
\* maximum interval.
FuzzIntervals ==
    { 7, 5000, Num(1), 24000, 24999, 25000, Num(3), Num(4), 96000, 324000,
      Num(100), 2505000, Num(36500) }

\* Math.random() is in [0, 1).
FuzzDraws == { 500 * k : k \in 0..19 } \cup { 9999 }

FuzzInit ==
    /\ parameters \in { DEFAULT_FSRS_PARAMETERS,
                         [ DEFAULT_FSRS_PARAMETERS EXCEPT !.enableFuzz = FALSE ] }
    /\ config = DEFAULT_STUDY_CONFIG
    /\ fuzzCall \in { [ NoFuzz EXCEPT !.interval = i ] : i \in FuzzIntervals }
    /\ ReviewIdle
    /\ CollectionIdle
    /\ DayIdle
    /\ ViewIdle
    /\ SingletonIdle

\* applyFuzz(interval), random being what Math.random() returns if called.
ApplyFuzz(random) ==
    /\ fuzzCall' = [ interval |-> fuzzCall.interval,
                     random   |-> random,
                     result   |-> applyFuzz(fuzzCall.interval, random) ]
    /\ UNCHANGED << parameters, config, card, log, visited, returned, preview,
                    collectionVars, introduced, viewVars, singletonVars >>

FuzzNext == \E random \in FuzzDraws : ApplyFuzz(random)

FuzzSpec == FuzzInit /\ [][FuzzNext]_vars

(***************************************************************************)
(* The review session of the view: rating buttons, the store, the vault.   *)
(* handleRating is an async function; between its awaits other handlers    *)
(* run.  The view re-renders on every store update, so the rating buttons  *)
(* always stand for the card at reviewState.currentIndex.                  *)
(***************************************************************************)

\* How many times a rating button is clicked in all.
MaxClicks == 3

\* The cards of the store: two new cards.
SessionCards == << NewCardNo(1), NewCardNo(2) >>

\* The rating buttons clicked.
ViewRatings == { AGAIN, GOOD }

\* Date.now() when the view is opened.
SessionStart == Day(10)

\* The orders shuffleArray can put a list of ids in.
RECURSIVE Shuffles(_)
Shuffles(ids) ==
    IF ids = { } THEN { << >> }
    ELSE UNION { { << id >> \o rest : rest \in Shuffles(ids \ { id }) } : id \in ids }

\* learningCards.find(c => c.id === cardId), as an index; 0 if there is none.
FindCard(list, cardId) ==
    IF \E i \in 1..Len(list) : list[i].id = cardId
    THEN CHOOSE i \in 1..Len(list) : list[i].id = cardId
    ELSE 0

\* The store's updateCard.
updateCard(list, updatedCard) ==
    [ i \in 1..Len(list) |-> IF list[i].id = updatedCard.id THEN updatedCard ELSE list[i] ]

Pending == { h \in 1..Len(handlers) : handlers[h].pc # "done" }

ViewInit ==
    /\ parameters = DEFAULT_FSRS_PARAMETERS
    /\ config = DEFAULT_STUDY_CONFIG
    /\ cards = SessionCards
    /\ reviewState = NoReviewState
    /\ handlers = << >>
    /\ clock = SessionStart
    /\ cardFiles = [ i \in 1..Len(SessionCards) |-> SessionCards[i] ]
    /\ logFile = << >>
    /\ passed = << >>
    /\ applied = << >>
    /\ session = NoSession
    /\ dailyStats = << >>
    /\ stats = NoStats
    /\ ReviewIdle
    /\ FuzzIdle
    /\ DayIdle
    /\ SingletonIdle

\* The start button of the review mode: the due cards, shuffled.
StartReview ==
    /\ ~reviewState.isActive \/ reviewState.queue = << >>
    /\ LET Due(c) == FLe(c.fsrsState.nextReview, clock)
           due == SelectSeq(cards, Due)
       IN  /\ due # << >>
           /\ \E queue \in Shuffles({ due[i].id : i \in 1..Len(due) }) :
                  /\ reviewState' = [ reviewState EXCEPT !.queue = queue,
                                                          !.currentIndex = 0,
                                                          !.isActive = TRUE ]
                  /\ applied' = [ i \in 1..Len(queue) |-> 0 ]
    /\ UNCHANGED << parameters, config, card, log, visited, returned, preview,
                    cards, session, dailyStats, stats, fuzzCall, introduced,
                    handlers, clock, cardFiles, logFile, passed, singletonVars >>

\* A click on a rating button: handleRating up to its first await.  The
\* handler keeps the store state it read on entry.
ClickRating(rating, random) ==
    /\ Len(handlers) < MaxClicks
    /\ reviewState.isActive /\ reviewState.queue # << >>
    /\ LET cardId == reviewState.queue[reviewState.currentIndex + 1]
           found  == FindCard(cards, cardId)
       IN  /\ found # 0
           /\ \E newState \in { processReview(cards[found].fsrsState, rating, clock, random) } :
                  /\ cards' = updateCard(cards, [ cards[found] EXCEPT !.fsrsState = newState ])
                  /\ handlers' = Append(handlers,
                         [ pc          |-> "saveLearningCard",
                           cardId      |-> cardId,
                           rating      |-> rating,
                           reviewState |-> reviewState,
                           card        |-> cards[found],
                           updatedCard |-> [ cards[found] EXCEPT !.fsrsState = newState ],
                           entry       |-> NoLog,
                           logs        |-> << >> ])
           /\ applied' = [ applied EXCEPT ![reviewState.currentIndex + 1] = @ + 1 ]
    /\ clock' = clock + 1
    /\ UNCHANGED << parameters, config, card, log, visited, returned, preview,
                    session, dailyStats, stats, fuzzCall, introduced,
                    reviewState, cardFiles, logFile, passed, singletonVars >>

\* saveLearningCard has written the card file; the handler builds the log
\* entry and calls saveReviewLog, which awaits ensureDir and the read.
SaveLearningCardDone(h) ==
    /\ handlers[h].pc = "saveLearningCard"
    /\ LET cardId == handlers[h].cardId
           entry == [ cardId        |-> cardId,
                      rating        |-> handlers[h].rating,
                      timestamp     |-> clock,
                      stateBefore   |-> handlers[h].card.fsrsState.state,
                      stateAfter    |-> handlers[h].updatedCard.fsrsState.state,
                      scheduledDays |-> handlers[h].updatedCard.fsrsState.scheduledDays,
                      elapsedDays   |-> handlers[h].updatedCard.fsrsState.elapsedDays ]
       IN  /\ cardFiles' = [ i \in 1..Len(cardFiles) |->
                                 IF cardFiles[i].id = cardId
                                 THEN handlers[h].updatedCard ELSE cardFiles[i] ]
           /\ handlers' = [ handlers EXCEPT ![h].pc = "read", ![h].entry = entry ]
           /\ passed' = Append(passed, entry)
    /\ clock' = clock + 1
    /\ UNCHANGED << parameters, config, card, log, visited, returned, preview,
                    collectionVars, fuzzCall, introduced,
                    reviewState, logFile, applied, singletonVars >>

\* saveReviewLog: vault.adapter.read returns the file's content.
ReadLogFile(h) ==
    /\ handlers[h].pc = "read"
    /\ handlers' = [ handlers EXCEPT ![h].pc = "write", ![h].logs = logFile ]
    /\ UNCHANGED << parameters, config, card, log, visited, returned, preview,
                    collectionVars, fuzzCall, introduced,
                    reviewState, clock, cardFiles, logFile, passed, applied,
                    singletonVars >>

\* saveReviewLog: logs.push(log), then vault.adapter.write.
WriteLogFile(h) ==
    /\ handlers[h].pc = "write"
    /\ logFile' = Append(handlers[h].logs, handlers[h].entry)
    /\ handlers' = [ handlers EXCEPT ![h].pc = "advance" ]
    /\ UNCHANGED << parameters, config, card, log, visited, returned, preview,
                    collectionVars, fuzzCall, introduced,
                    reviewState, clock, cardFiles, passed, applied, singletonVars >>

\* handleRating after its awaits: move to the next card, or end the
\* session, from the store state read on entry.
MoveToNextCard(h) ==
    /\ handlers[h].pc = "advance"
    /\ LET state == handlers[h].reviewState
           nextIndex == state.currentIndex + 1
       IN  reviewState' =
               IF nextIndex >= Len(state.queue)
               THEN [ state EXCEPT !.isActive = FALSE, !.currentIndex = 0,
                                   !.queue = << >> ]
               ELSE [ state EXCEPT !.currentIndex = nextIndex ]
    /\ handlers' = [ handlers EXCEPT ![h].pc = "done" ]
    /\ UNCHANGED << parameters, config, card, log, visited, returned, preview,
                    collectionVars, fuzzCall, introduced,
                    clock, cardFiles, logFile, passed, applied, singletonVars >>

ViewNext ==
    \/ StartReview
    \/ \E rating \in ViewRatings :
           \E random \in (IF parameters.enableFuzz THEN { 0, 9999 } ELSE { 0 }) :
               ClickRating(rating, random)
    \/ \E h \in 1..Len(handlers) : SaveLearningCardDone(h)
    \/ \E h \in 1..Len(handlers) : ReadLogFile(h)
    \/ \E h \in 1..Len(handlers) : WriteLogFile(h)
    \/ \E h \in 1..Len(handlers) : MoveToNextCard(h)

ViewSpec == ViewInit /\ [][ViewNext]_vars

(***************************************************************************)
(* One day of study: queues are built and the queued cards are reviewed.   *)
(***************************************************************************)

\* Two times of the same day.
DayTimes == { Day(10), Day(10) + 12 * 60 }

\* The ratings given during the day.
DayRatings == { AGAIN, GOOD }

DayInit ==
    /\ parameters = DEFAULT_FSRS_PARAMETERS
    /\ config \in QueueConfigs
    /\ cards = [ k \in 1..MaxNewCards |-> NewCardNo(k) ]
    /\ session = NoSession
    /\ introduced = { }
    /\ dailyStats = << >>
    /\ stats = NoStats
    /\ ReviewIdle
    /\ FuzzIdle
    /\ ViewIdle
    /\ SingletonIdle

\* buildStudyQueue(cards, now); introduced records the 'new' items.
BuildDayQueue(now) ==
    /\ \E built \in { buildStudyQueue(cards, now) } :
           /\ session' = [ now |-> now, queue |-> built.queue, left |-> built.left ]
           /\ introduced' = introduced \cup
                  { built.queue[i].cardId :
                      i \in { j \in 1..Len(built.queue) : built.queue[j].state = "new" } }
    /\ UNCHANGED << parameters, config, card, log, visited, returned, preview,
                    cards, dailyStats, stats, fuzzCall, viewVars, singletonVars >>

\* processReview on the card of a queue item that has not been reviewed
\* since the queue was built.
ReviewQueued(i, rating, random) ==
    /\ i \in 1..Len(session.queue)
    /\ LET item  == session.queue[i]
           found == FindCard(cards, item.cardId)
       IN  /\ found # 0
           /\ cards[found].fsrsState.state = item.state
           /\ cards[found].fsrsState.nextReview = item.dueDate
           /\ cards[found].fsrsState.lastReview # session.now
           /\ cards' = [ cards EXCEPT ![found].fsrsState =
                             processReview(cards[found].fsrsState, rating,
                                           session.now, random) ]
    /\ UNCHANGED << parameters, config, card, log, visited, returned, preview,
                    session, dailyStats, stats, otherVars >>

DayNext ==
    \/ \E now \in DayTimes : BuildDayQueue(now)
    \/ \E i \in 1..MaxNewCards, rating \in DayRatings : ReviewQueued(i, rating, 0)

DaySpec == DayInit /\ [][DayNext]_vars

(***************************************************************************)
(* The shared service: getFSRSService and resetFSRSService.                *)
(***************************************************************************)

\* How many FSRSService objects are constructed in all.
MaxInstances == 3

\* An object with no properties, {}.
NoArgument == [ f \in { } |-> Null ]

\* Partial<FSRSParameters> and Partial<StudySessionConfig> arguments; the
\* empty one is also what an omitted argument defaults to.
PartialParameters ==
    { NoArgument,
      [ enableFuzz |-> FALSE ],
      [ maximumInterval |-> Num(3), requestRetention |-> 8000 ] }

PartialConfigs ==
    { NoArgument,
      [ newCardsPerDay |-> 2 ],
      [ learningSteps |-> << Num(15) >>, maxReviewsPerDay |-> 11 ] }

\* { ...defaults, ...partial }
Spread(defaults, partial) ==
    [ f \in DOMAIN defaults |->
          IF f \in DOMAIN partial THEN partial[f] ELSE defaults[f] ]

\* new FSRSService(parameters, config); id tells one object from another.
FSRSService(id, partialParameters, partialConfig) ==
    [ id         |-> id,
      parameters |-> Spread(DEFAULT_FSRS_PARAMETERS, partialParameters),
      config     |-> Spread(DEFAULT_STUDY_CONFIG, partialConfig) ]

\* A getFSRSService that constructs a service on every call.
getFSRSService_Rebuilds(partialParameters, partialConfig) ==
    FSRSService(allocated + 1, partialParameters, partialConfig)

\* getFSRSService(parameters, config): the shared instance after the call,
\* which is what the call returns.
getFSRSService(partialParameters, partialConfig) ==
    IF fsrsServiceInstance = NoInstance
    THEN FSRSService(allocated + 1, partialParameters, partialConfig)
    ELSE fsrsServiceInstance

SingletonInit ==
    /\ parameters = DEFAULT_FSRS_PARAMETERS
    /\ config = DEFAULT_STUDY_CONFIG
    /\ fsrsServiceInstance = NoInstance
    /\ lastCall = NoCall
    /\ allocated = 0
    /\ ReviewIdle
    /\ CollectionIdle
    /\ FuzzIdle
    /\ DayIdle
    /\ ViewIdle

GetFSRSService(partialParameters, partialConfig) ==
    /\ \E instance \in { getFSRSService(partialParameters, partialConfig) } :
           /\ instance.id <= MaxInstances
           /\ fsrsServiceInstance' = instance
           /\ allocated' = IF instance.id > allocated THEN instance.id ELSE allocated
           /\ lastCall' = [ op         |-> "getFSRSService",
                            parameters |-> partialParameters,
                            config     |-> partialConfig,
                            result     |-> instance ]
    /\ UNCHANGED << parameters, config, card, log, visited, returned, preview,
                    collectionVars, fuzzCall, introduced, viewVars >>

ResetFSRSService ==
    /\ fsrsServiceInstance' = NoInstance
    /\ lastCall' = [ op |-> "resetFSRSService" ]
    /\ UNCHANGED << parameters, config, card, log, visited, returned, preview,
                    collectionVars, fuzzCall, introduced, viewVars, allocated >>

\* updateParameters on the shared instance, by one of its holders.
UpdateParameters(partialParameters) ==
    /\ fsrsServiceInstance # NoInstance
    /\ fsrsServiceInstance' =
           [ fsrsServiceInstance EXCEPT
                 !.parameters = Spread(fsrsServiceInstance.parameters, partialParameters) ]
    /\ lastCall' = [ op |-> "updateParameters", parameters |-> partialParameters ]
    /\ UNCHANGED << parameters, config, card, log, visited, returned, preview,
                    collectionVars, fuzzCall, introduced, viewVars, allocated >>

\* updateConfig on the shared instance.
UpdateConfig(partialConfig) ==
    /\ fsrsServiceInstance # NoInstance
    /\ fsrsServiceInstance' =
           [ fsrsServiceInstance EXCEPT
                 !.config = Spread(fsrsServiceInstance.config, partialConfig) ]
    /\ lastCall' = [ op |-> "updateConfig", config |-> partialConfig ]
    /\ UNCHANGED << parameters, config, card, log, visited, returned, preview,
                    collectionVars, fuzzCall, introduced, viewVars, allocated >>

SingletonNext ==
    \/ \E p \in PartialParameters, c \in PartialConfigs : GetFSRSService(p, c)
    \/ ResetFSRSService
    \/ \E p \in PartialParameters : UpdateParameters(p)
    \/ \E c \in PartialConfigs : UpdateConfig(c)

SingletonSpec == SingletonInit /\ [][SingletonNext]_vars

(***************************************************************************)
(* Properties.  Reviewed holds once processReview has produced the card;   *)
(* log then describes the call that produced it.                           *)
(***************************************************************************)

Reviewed == log.rating # 0

\* The step, in minutes, a review is scheduled on when it lands on a
\* learning or relearning step; NaN for the reviews that schedule in days.
ScheduledStep ==
    IF log.stateBefore = "new" /\ log.rating = AGAIN
        THEN StepAt(config.learningSteps, 0)
    ELSE IF log.stateBefore = "new" /\ log.rating = HARD
        THEN StepAt(config.learningSteps,
                    IF Len(config.learningSteps) > 1 THEN 1 ELSE 0)
    ELSE IF log.stateBefore = "learning" /\ log.rating = AGAIN
        THEN StepAt(config.learningSteps, 0)
    ELSE IF log.stateBefore \in {"relearning", "review"} /\ log.rating = AGAIN
        THEN StepAt(config.relearningSteps, 0)
    ELSE NaN

\* C1: every card state produced by processReview has scheduledDays > 0.
C1_ScheduledDaysPositive ==
    Reviewed => FLt(0, card.scheduledDays)

\* C2: a review scheduled on a step of m minutes stores scheduledDays =
\* m / 1440 days and nextReview = the review timestamp plus m minutes.
C2_StepIntervalIsFractionalDays ==
    (Reviewed /\ ~IsNaN(ScheduledStep)) =>
        /\ card.scheduledDays = FDiv(ScheduledStep, Num(MinutesPerDay))
        /\ card.nextReview = log.timestamp + ScheduledStep \div Scale

\* C3: every card state produced by processReview has scheduledDays <=
\* parameters.maximumInterval.
C3_IntervalWithinMaximum ==
    Reviewed => FLe(card.scheduledDays, parameters.maximumInterval)

\* C4: from 'review', Again adds exactly one lapse and enters 'relearning';
\* Hard, Good and Easy leave lapses unchanged and stay in 'review'.
C4_LapseAccounting ==
    [][ card.state = "review" =>
            IF log'.rating = AGAIN
            THEN card'.lapses = card.lapses + 1 /\ card'.state = "relearning"
            ELSE card'.lapses = card.lapses /\ card'.state = "review" ]_vars

C4_Witness ==
    /\ log.stateBefore = "review" /\ log.rating = AGAIN
    /\ card.state = "relearning" /\ card.lapses = 1

\* C5: once the card has been reviewed its difficulty lies in [1, 10],
\* whatever the weights.
C5_DifficultyInRange ==
    Reviewed => FLe(Num(1), card.difficulty) /\ FLe(card.difficulty, Num(10))

\* C6: after any non-empty sequence of processReview calls stability > 0.
C6_StabilityPositive ==
    Reviewed => FLt(0, card.stability)

\* C7: every card state returned by processReview has retrievability in
\* [0, 1], also when now is earlier than the card's lastReview.
C7_RetrievabilityInUnitInterval ==
    Reviewed => FLe(0, card.retrievability) /\ FLe(card.retrievability, Num(1))

\* C8: every card state returned by processReview(state, rating, now) has
\* lastReview = now and nextReview = lastReview + scheduledDays * one day,
\* with the scheduledDays stored in that state (a NaN interval gives a NaN
\* due date).
C8_DueDateFromStoredInterval ==
    Reviewed =>
        /\ card.lastReview = log.timestamp
        /\ card.nextReview =
               IF IsFinite(card.scheduledDays)
               THEN card.lastReview + (card.scheduledDays * MsPerDay) \div Scale
               ELSE card.scheduledDays

C8_Witness ==
    /\ Reviewed /\ card.state = "review"
    /\ card.scheduledDays = Num(9)
    /\ card.nextReview = card.lastReview + Day(9)

\* C9: no processReview call on a card in 'learning', 'review' or
\* 'relearning' returns a card in 'new' (and the lifecycle the log records
\* is the card's); all four lifecycles are reached from 'new' (C9_Witness).
C9_NoReturnToNew ==
    [][ card.state # "new" => card'.state \in CardStates \ { "new" } ]_vars

C9_Witness == visited = CardStates

\* C10 as claimed: a card in 'relearning' always eventually returns to
\* 'review'.
C10_RelearningReturnsToReview ==
    (card.state = "relearning") ~> (card.state = "review")

\* C10 amended: in 'relearning', Good and Easy lead to 'review' and are the
\* only ratings that leave 'relearning'; Again and Hard stay in it.
C10_RelearningLeavesOnlyByGoodOrEasy ==
    [][ card.state = "relearning" =>
            IF log'.rating \in { GOOD, EASY }
            THEN card'.state = "review"
            ELSE card'.state = "relearning" ]_vars

C10_Witness ==
    /\ log.stateBefore = "relearning" /\ log.rating \in { GOOD, EASY }
    /\ card.state = "review"

\* The preview entry of a rating.
PreviewEntry(schedulingCards, rating) ==
    CASE rating = AGAIN -> schedulingCards.again
      [] rating = HARD  -> schedulingCards.hard
      [] rating = GOOD  -> schedulingCards.good
      [] OTHER          -> schedulingCards.easy

\* C11: getSchedulingCards and processReview leave every field of the card
\* state object they are given as it was before the call.
C11_InputNotModified ==
    [][ card' = card ]_vars

C11_Witness ==
    /\ returned.rating # 0 /\ preview.now # Null
    /\ card.state = "relearning"
    /\ returned.newState # card /\ preview.cards.good.newState # card

\* C12: with enableFuzz = false, processReview and getSchedulingCards
\* called again with the same card state and timestamp (and rating) return
\* the same result whatever Math.random() would return, and the preview
\* entry of a rating equals what processReview returns for that rating and
\* timestamp.
C12_DeterministicWithoutFuzz ==
    [][ (~parameters.enableFuzz /\ card' = card) =>
            /\ (preview.now # Null /\ preview'.now = preview.now)
                   => preview' = preview
            /\ (returned.rating # 0 /\ returned'.rating = returned.rating
                                    /\ returned'.now = returned.now)
                   => returned' = returned
            /\ (preview'.now # Null /\ preview'.now = returned'.now)
                   => PreviewEntry(preview'.cards, returned'.rating).newState
                          = returned'.newState ]_vars

\* Both calls made at the same timestamp on a review card whose next
\* interval (over 32 days) is long enough for a fuzz to change it.
C12_Witness ==
    /\ ~parameters.enableFuzz
    /\ card.state = "review"
    /\ preview.now # Null /\ preview.now = returned.now
    /\ returned.rating = GOOD
    /\ FLt(Num(32), returned.newState.scheduledDays)
    /\ preview.cards.good.newState = returned.newState

\* The queue of the latest buildStudyQueue call, and the lifecycles in it.
Built == session.now # Null

QueueStates == [ i \in 1..Len(session.queue) |-> session.queue[i].state ]

CountOf(states) ==
    Cardinality({ i \in 1..Len(session.queue) : session.queue[i].state \in states })

\* C13: in the returned queue every 'learning' or 'relearning' item is at a
\* lower index than every 'review' or 'new' item.
C13_LearningFirst ==
    Built =>
        \A i, j \in 1..Len(session.queue) :
            ( /\ session.queue[i].state \in { "learning", "relearning" }
              /\ session.queue[j].state \in { "review", "new" } ) => i < j

C13_Witness ==
    /\ Built
    /\ { QueueStates[i] : i \in 1..Len(QueueStates) } = CardStates

\* The cards of the collection in one of the lifecycles states that are due
\* at the time of the latest call.
DueCount(states) ==
    Cardinality({ i \in 1..Len(cards) :
                    /\ cards[i].fsrsState.state \in states
                    /\ FLe(cards[i].fsrsState.nextReview, session.now) })

\* C14: the returned queue holds at most newCardsPerDay 'new' items and at
\* most maxReviewsPerDay 'review' items, unless maxReviewsPerDay is 0, and
\* then it holds every due review card; it holds every due learning and
\* relearning card.
C14_DailyCaps ==
    Built =>
        /\ CountOf({ "new" }) <= config.newCardsPerDay
        /\ IF config.maxReviewsPerDay = 0
           THEN CountOf({ "review" }) = DueCount({ "review" })
           ELSE CountOf({ "review" }) <= config.maxReviewsPerDay
        /\ CountOf({ "learning", "relearning" }) = DueCount({ "learning", "relearning" })

\* Both caps cut the selection short, and a card on a step is queued.
C14_Witness ==
    /\ Built
    /\ CountOf({ "new" }) = config.newCardsPerDay
    /\ Cardinality({ i \in 1..Len(cards) : cards[i].fsrsState.state = "new" })
           > config.newCardsPerDay
    /\ CountOf({ "review" }) = config.maxReviewsPerDay
    /\ DueCount({ "review" }) > config.maxReviewsPerDay
    /\ CountOf({ "learning", "relearning" }) > 0

Min(a, b) == IF a < b THEN a ELSE b

\* The positions of the 'new' items in the queue, in ascending order.
NewPositions ==
    LET Pos(i) == session.queue[i].state = "new"
    IN  SelectSeq([ i \in 1..Len(session.queue) |-> i ], Pos)

\* C15: behind the learning items the queue holds the selected review and
\* new cards, each exactly once, in rounds of up to 10 review items and 1
\* new item: the k-th new card follows min(10k, R) of the R review cards,
\* at most 10 review items lie between two new items, and the loop ends.
C15_Interleaving ==
    Built =>
        LET review == reviewCardsOf(cards, session.now)
            new    == newCardsOf(cards)
            L      == Len(learningCardsOf(cards, session.now))
            R      == Len(review)
            N      == Len(new)
            queue  == session.queue
        IN  /\ session.left = 0
            /\ Len(queue) = L + R + N
            /\ \A k \in 1..N :
                   /\ queue[L + Min(10 * k, R) + k].cardId = new[k].id
                   /\ queue[L + Min(10 * k, R) + k].state = "new"
            /\ \A j \in 1..R :
                   /\ queue[L + j + Min((j - 1) \div 10, N)].cardId = review[j].id
                   /\ queue[L + j + Min((j - 1) \div 10, N)].state = "review"
            /\ \A c \in { review[j] : j \in 1..R } \cup { new[k] : k \in 1..N } :
                   Cardinality({ i \in 1..Len(queue) : queue[i].cardId = c.id }) = 1
            /\ \A k \in 1..(Len(NewPositions) - 1) :
                   NewPositions[k + 1] - NewPositions[k] - 1 <= 10

\* Two rounds: more than 10 review cards and at least 2 new cards.
C15_Witness ==
    /\ Built
    /\ CountOf({ "review" }) > 10
    /\ CountOf({ "new" }) >= 2
    /\ session.left = 0

\* C16: the item at index i of the returned queue (counted from 0) has
\* priority i.
C16_PriorityIsIndex ==
    Built => \A i \in 1..Len(session.queue) : session.queue[i].priority = i - 1

C16_Witness ==
    /\ Built
    /\ Len(session.queue) > 12
    /\ session.queue[Len(session.queue)].priority = Len(session.queue) - 1
    /\ session.queue[1].state \in { "learning", "relearning" }

\* C17: processReview on a 'new' card sets reps = 1, stability =
\* w[rating-1] and difficulty = w4 - exp(w5 * (rating-1)) + 1; Again
\* schedules the first learning step in 'learning', Hard the second step if
\* there is one, else the first, Good graduatingInterval in 'review', Easy
\* easyInterval in 'review'; with the default weights Good gives difficulty
\* 5.29 (to two decimals) and stability 3.1262.
C17_NewCardRouting ==
    (Reviewed /\ log.stateBefore = "new") =>
        LET rating == log.rating
            steps  == config.learningSteps
        IN  /\ card.reps = 1
            /\ card.stability = W(rating - 1)
            /\ card.difficulty =
                   FAdd(FSub(W(4), MathExp(FMul(W(5), Num(rating - 1)))), Num(1))
            /\ card.state = IF rating \in { AGAIN, HARD } THEN "learning" ELSE "review"
            /\ card.scheduledDays =
                   CASE rating = AGAIN -> FDiv(steps[1], Num(MinutesPerDay))
                     [] rating = HARD  -> FDiv(steps[IF Len(steps) >= 2 THEN 2 ELSE 1],
                                               Num(MinutesPerDay))
                     [] rating = GOOD  -> config.graduatingInterval
                     [] OTHER          -> config.easyInterval
            /\ (parameters.w = DefaultW /\ rating = GOOD) =>
                   /\ Abs(card.difficulty - 52900) <= 50
                   /\ card.stability = 31262

\* The history by date: the days it has an entry for, and the reviews of a
\* day.
HistoryDays == { dailyStats[i].date : i \in 1..Len(dailyStats) }

ReviewedOn(day) ==
    LET i == CHOOSE j \in 1..Len(dailyStats) : dailyStats[j].date = day
    IN  dailyStats[i].reviewed

\* The runs of days with reviews: from..to, every day of it in the history
\* with reviewed > 0.
IsRun(from, to) ==
    \A day \in from..to : day \in HistoryDays /\ ReviewedOn(day) > 0

MostRecentDay == CHOOSE day \in HistoryDays : \A other \in HistoryDays : other <= day

Computed == stats.streak >= 0

\* C18: streak is the number of consecutive days with reviewed > 0 counted
\* back from the most recent day of the history, up to the first day with
\* reviewed = 0; it is 0 when the most recent day has no reviews.
C18_StreakFromMostRecentDay ==
    (Computed /\ HistoryDays # { }) =>
        /\ IsRun(MostRecentDay - stats.streak + 1, MostRecentDay)
        /\ ~IsRun(MostRecentDay - stats.streak, MostRecentDay)

C20_InvalidInputRejected ==
    [][ (card.lastReview # Null /\ log'.timestamp < card.lastReview)
            => card' = card ]_vars

\* C21: a Good rating on a 'review' card with difficulty in [1, 10],
\* stability > 0 and an elapsed time >= 0 returns a stability that is at
\* least the stability before the review.
C21_GoodDoesNotShrinkStability ==
    [][ ( /\ card.state = "review" /\ log'.rating = GOOD
          /\ FLe(Num(1), card.difficulty) /\ FLe(card.difficulty, Num(10))
          /\ FLt(0, card.stability)
          /\ FLe(0, log'.elapsedDays) )
            => FLe(card.stability, card'.stability) ]_vars

\* Good two days after a first Good with the default weights: stability
\* grows from 3.1262 to about 8.6.
C21_Witness ==
    /\ parameters.w = DefaultW
    /\ log.stateBefore = "review" /\ log.rating = GOOD
    /\ log.elapsedDays = Num(2)
    /\ card.reps = 2 /\ card.lapses = 0
    /\ FLt(Num(8), card.stability) /\ FLt(card.stability, Num(9))

\* The step list of the lifecycle the card is in.
StepsOf(state) ==
    IF state.state = "learning" THEN config.learningSteps ELSE config.relearningSteps

\* C22: for a card in 'learning' or 'relearning', Again keeps the lifecycle
\* and makes the raw interval the first step of the matching list; Hard
\* keeps the lifecycle and makes the raw interval 1.2 times the step the
\* card is on (the second learning step for a card that entered 'learning'
\* by Hard).  The raw interval is the one the Again and Hard branches
\* assign before applyFuzz.
C22_AgainAndHardOnSteps ==
    (Reviewed /\ card.state \in { "learning", "relearning" }) =>
        LET again == ResetToFirstStep(card, StepsOf(card))
            hard  == StayOnStep(card, StepsOf(card))
        IN  /\ again.state = card.state
            /\ again.scheduledDays = FDiv(StepsOf(card)[1], Num(MinutesPerDay))
            /\ hard.state = card.state
            /\ ~IsNaN(ScheduledStep) =>
                   hard.scheduledDays =
                       FDiv(FMul(ScheduledStep, 12000), Num(MinutesPerDay))

\* C23: Good or Easy on a card in 'learning' or 'relearning' moves it to
\* 'review', adds exactly 1 to reps, replaces difficulty by
\* nextDifficulty(difficulty, rating), leaves stability and lapses as they
\* are and schedules graduatingInterval for Good, easyInterval for Easy.
C23_Graduation ==
    [][ (card.state \in { "learning", "relearning" } /\ log'.rating \in { GOOD, EASY }) =>
            /\ card'.state = "review"
            /\ card'.reps = card.reps + 1
            /\ card'.difficulty = nextDifficulty(card.difficulty, log'.rating)
            /\ card'.stability = card.stability
            /\ card'.lapses = card.lapses
            /\ card'.scheduledDays = IF log'.rating = GOOD THEN config.graduatingInterval
                                                           ELSE config.easyInterval ]_vars

C23_Witness ==
    /\ log.stateBefore = "learning" /\ log.rating = EASY
    /\ card.state = "review" /\ card.reps = 2
    /\ card.scheduledDays = config.easyInterval

FuzzBound(interval) ==
    FAdd(FMul(FMul(interval, 500), MathMin(Num(1), FDiv(interval, Num(100)))), 5000)

C24_FuzzWithinFivePercent ==
    fuzzCall.random # Null =>
        IF ~parameters.enableFuzz \/ FLt(fuzzCall.interval, 25000)
        THEN fuzzCall.result = MathRound(fuzzCall.interval)
        ELSE /\ fuzzCall.result % Scale = 0
             /\ FLe(Num(1), fuzzCall.result)
             /\ FLe(Abs(FSub(fuzzCall.result, fuzzCall.interval)),
                    FuzzBound(fuzzCall.interval))

C24_Witness ==
    /\ parameters.enableFuzz
    /\ fuzzCall.interval = Num(100)
    /\ fuzzCall.random = 9999
    /\ fuzzCall.result = Num(105)

\* The items of the returned queue in one of the lifecycles states, in the
\* order of the queue.
ItemsOf(states) ==
    LET In(item) == item.state \in states IN SelectSeq(session.queue, In)

\* The card of the collection an item stands for.
CardOf(item) ==
    cards[CHOOSE i \in 1..Len(cards) : cards[i].id = item.cardId]

Queued(c) == \E i \in 1..Len(session.queue) : session.queue[i].cardId = c.id

\* C25: in the returned queue the learning/relearning items are in
\* ascending nextReview order; the review items are in ascending nextReview
\* order and no due review card left out is due earlier than one that was
\* taken; the new items are in ascending createdAt order and no new card
\* left out was created earlier than one that was taken; every learning,
\* relearning and review item has nextReview <= now.
C25_QueueOrder ==
    Built =>
        LET learning == ItemsOf({ "learning", "relearning" })
            review   == ItemsOf({ "review" })
            new      == ItemsOf({ "new" })
        IN  /\ \A i, j \in 1..Len(learning) :
                   i < j => FLe(CardOf(learning[i]).fsrsState.nextReview,
                                CardOf(learning[j]).fsrsState.nextReview)
            /\ \A i, j \in 1..Len(review) :
                   i < j => FLe(CardOf(review[i]).fsrsState.nextReview,
                                CardOf(review[j]).fsrsState.nextReview)
            /\ \A k \in 1..Len(cards), i \in 1..Len(review) :
                   ( /\ cards[k].fsrsState.state = "review"
                     /\ FLe(cards[k].fsrsState.nextReview, session.now)
                     /\ ~Queued(cards[k]) )
                       => FLe(CardOf(review[i]).fsrsState.nextReview,
                              cards[k].fsrsState.nextReview)
            /\ \A i, j \in 1..Len(new) :
                   i < j => CardOf(new[i]).createdAt <= CardOf(new[j]).createdAt
            /\ \A k \in 1..Len(cards), i \in 1..Len(new) :
                   (cards[k].fsrsState.state = "new" /\ ~Queued(cards[k]))
                       => CardOf(new[i]).createdAt <= cards[k].createdAt
            /\ \A i \in 1..Len(session.queue) :
                   session.queue[i].state \in { "learning", "relearning", "review" }
                       => FLe(CardOf(session.queue[i]).fsrsState.nextReview, session.now)

\* A collection whose review cards and new cards are stored latest first,
\* with a review card not yet due, and a new card over the cap.
C25_Witness ==
    /\ Built
    /\ Len(ItemsOf({ "review" })) >= 2
    /\ Len(ItemsOf({ "new" })) = 2
    /\ \E k \in 1..Len(cards) : cards[k].fsrsState.state = "new" /\ ~Queued(cards[k])
    /\ \E k \in 1..Len(cards) :
           /\ cards[k].fsrsState.state = "review"
           /\ ~FLe(cards[k].fsrsState.nextReview, session.now)
    /\ \E k, m \in 1..Len(cards) :
           /\ k < m
           /\ cards[k].fsrsState.state = "review" /\ cards[m].fsrsState.state = "review"
           /\ Queued(cards[k]) /\ Queued(cards[m])
           /\ cards[m].fsrsState.nextReview < cards[k].fsrsState.nextReview
    /\ \E k, m \in 1..Len(cards) :
           /\ k < m
           /\ Queued(cards[k]) /\ Queued(cards[m])
           /\ cards[k].fsrsState.state = "new" /\ cards[m].fsrsState.state = "new"
           /\ cards[m].createdAt < cards[k].createdAt

\* The sum of a sequence of counts.
RECURSIVE Total(_)
Total(counts) == IF counts = << >> THEN 0 ELSE Head(counts) + Total(Tail(counts))

\* C27: in a review session processReview is applied at most once to each
\* queue position, also when a rating button is clicked again while the
\* first handleRating call is awaiting its saves; and once every handler
\* has finished, currentIndex has advanced by one per applied review.
C27_OneReviewPerPosition ==
    /\ \A position \in 1..Len(applied) : applied[position] <= 1
    /\ (Pending = { } /\ reviewState.isActive)
           => reviewState.currentIndex = Total(applied)

\* C28: whenever no saveReviewLog call is in progress, the day's log file
\* holds every entry that was passed to saveReviewLog.
C28_LogIsAppendOnly ==
    (\A h \in 1..Len(handlers) : handlers[h].pc \notin { "read", "write" })
        => \A k \in 1..Len(passed) :
               \E i \in 1..Len(logFile) : logFile[i] = passed[k]

\* C29: within one day, however buildStudyQueue calls and reviews of the
\* queued cards alternate, the number of distinct cards queued as 'new' is
\* at most newCardsPerDay.
C29_NewCardsPerDay == Cardinality(introduced) <= config.newCardsPerDay

\* C30: while a shared instance exists, getFSRSService returns it and
\* leaves it, its parameters and its config as they are, whatever the
\* arguments; resetFSRSService drops it; and a getFSRSService call that
\* finds no shared instance returns a service that did not exist before,
\* built from the call's own arguments, and makes it the shared instance.
C30_SharedUntilReset ==
    [][ /\ (lastCall'.op = "getFSRSService" /\ fsrsServiceInstance # NoInstance)
               => /\ fsrsServiceInstance' = fsrsServiceInstance
                  /\ lastCall'.result = fsrsServiceInstance
        /\ lastCall'.op = "resetFSRSService" => fsrsServiceInstance' = NoInstance
        /\ (lastCall'.op = "getFSRSService" /\ fsrsServiceInstance = NoInstance)
               => /\ lastCall'.result.id > allocated
                  /\ lastCall'.result.parameters
                         = Spread(DEFAULT_FSRS_PARAMETERS, lastCall'.parameters)
                  /\ lastCall'.result.config
                         = Spread(DEFAULT_STUDY_CONFIG, lastCall'.config)
                  /\ fsrsServiceInstance' = lastCall'.result ]_vars

\* The second service, built after a reset, returned by a call whose
\* arguments differ from what it was built from and from what it holds.
C30_Witness ==
    /\ lastCall.op = "getFSRSService"
    /\ allocated = 2
    /\ lastCall.result.id = 2
    /\ fsrsServiceInstance = lastCall.result
    /\ lastCall.parameters = [ enableFuzz |-> FALSE ]
    /\ lastCall.result.parameters.enableFuzz
    /\ lastCall.result.parameters.maximumInterval = Num(3)
    /\ lastCall.config = [ newCardsPerDay |-> 2 ]
    /\ lastCall.result.config = DEFAULT_STUDY_CONFIG

====
